---------------------------- MODULE Spec2Model ----------------------------
(***************************************************************************)
(* Model of the encrypto web UI: the FileUploader component (both versions *)
(* found in the repository), the FileList component and the remote storage *)
(* bucket 'encrypted-files' they share.                                    *)
(*                                                                         *)
(* Text is a sequence of one-character strings, so that split, join,       *)
(* replace, base64 and atob are computed character by character.           *)
(* Passwords are TLA+ strings: only their length and identity are used.    *)
(***************************************************************************)
EXTENDS Integers, Sequences, FiniteSets, Bags, TLC

(***************************************************************************)
(* Bounds of the model.                                                    *)
(***************************************************************************)
\* accepted handleUpload invocations per page life
MaxBatches == 2
\* largest value of Date.now() the uploader reads
MaxTime == 2
\* user operations of the list view in flight at once
MaxOps == 3
\* blobs other sessions put into the bucket
MaxSeeds == 2
\* name parts concatenated into a file name (naming specification)
MaxNameParts == 3
\* largest timestamp of the naming specification
MaxStamp == 11

(***************************************************************************)
(* Program constants.                                                      *)
(***************************************************************************)
MAX_FILE_SIZE == 50 * 1024 * 1024

ALLOWED_TYPES ==
  { "image/jpeg", "image/png", "image/gif", "application/pdf",
    "application/msword",
    "application/vnd.openxmlformats-officedocument.wordprocessingml.document",
    "text/plain" }

\* useState('') of the password fields
InitialPassword == ""

\* null of the error states and the absent `error` field of a task
NoError == "null"

PasswordTooShortMsg == "Password must be at least 8 characters long"
FileTypeMsg == "File type not supported"
FileSizeMsg == "File size exceeds 50MB limit"
UploadFailedMsg == "Failed to upload file"
NeedPasswordMsg == "Please enter the decryption password"
DecryptFailedMsg == "Incorrect password or corrupted file"
DownloadFailedMsg == "Failed to download file. Please try again."
DeleteFailedMsg == "Failed to delete file. Please try again."
FetchFailedMsg == "Failed to fetch files. Please try again later."

(***************************************************************************)
(* JavaScript string operations, on sequences of characters.               *)
(***************************************************************************)
\* '.encrypted'
Suffix == <<".", "e", "n", "c", "r", "y", "p", "t", "e", "d">>

DigitChars == <<"0", "1", "2", "3", "4", "5", "6", "7", "8", "9">>

\* `${n}` of a non-negative integer
RECURSIVE ToDigits(_)
ToDigits(n) ==
  IF n < 10 THEN <<DigitChars[n + 1]>>
  ELSE ToDigits(n \div 10) \o <<DigitChars[(n % 10) + 1]>>

\* s.indexOf(pat) + 1, and 0 when pat does not occur
IndexOf(s, pat) ==
  LET hits == { i \in 1..(Len(s) - Len(pat) + 1) :
                  SubSeq(s, i, i + Len(pat) - 1) = pat }
  IN  IF hits = {} THEN 0 ELSE CHOOSE i \in hits : \A j \in hits : i <= j

\* s.replace(pat, rep) with a string pattern: the FIRST occurrence only
ReplaceFirst(s, pat, rep) ==
  LET i == IndexOf(s, pat)
  IN  IF i = 0 THEN s
      ELSE SubSeq(s, 1, i - 1) \o rep \o SubSeq(s, i + Len(pat), Len(s))

\* s.split(sep) for a one-character separator: never empty
RECURSIVE Split(_, _)
Split(s, sep) ==
  LET i == IndexOf(s, <<sep>>)
  IN  IF i = 0 THEN <<s>>
      ELSE <<SubSeq(s, 1, i - 1)>> \o Split(SubSeq(s, i + 1, Len(s)), sep)

\* parts.join(sep)
RECURSIVE Join(_, _)
Join(parts, sep) ==
  IF Len(parts) = 0 THEN <<>>
  ELSE IF Len(parts) = 1 THEN parts[1]
  ELSE parts[1] \o <<sep>> \o Join(Tail(parts), sep)

\* parts.slice(1)
Slice1(parts) == IF Len(parts) = 0 THEN <<>> ELSE Tail(parts)

\* parts.pop() of a non-empty array
Pop(parts) == parts[Len(parts)]

UpperChars ==
  <<"A", "B", "C", "D", "E", "F", "G", "H", "I", "J", "K", "L", "M",
    "N", "O", "P", "Q", "R", "S", "T", "U", "V", "W", "X", "Y", "Z">>
LowerChars ==
  <<"a", "b", "c", "d", "e", "f", "g", "h", "i", "j", "k", "l", "m",
    "n", "o", "p", "q", "r", "s", "t", "u", "v", "w", "x", "y", "z">>

\* s.toLowerCase()
ToLowerCase(s) ==
  [i \in 1..Len(s) |->
     IF \E j \in 1..26 : UpperChars[j] = s[i]
     THEN LowerChars[CHOOSE j \in 1..26 : UpperChars[j] = s[i]]
     ELSE s[i]]

(***************************************************************************)
(* Naming scheme.                                                          *)
(***************************************************************************)
\* `${Date.now()}-${file.name}.encrypted`
makeKey(name, t) == ToDigits(t) \o <<"-">> \o name \o Suffix

\* mutant: only the part between the first two separators is kept
originalFileNameSecondPart(fileName) ==
  LET parts == Split(fileName, "-")
  IN  ReplaceFirst(IF Len(parts) >= 2 THEN parts[2] ELSE <<>>, Suffix, <<>>)

\* fileName.split('-').slice(1).join('-').replace('.encrypted', '')
originalFileName(fileName) ==
  ReplaceFirst(Join(Slice1(Split(fileName, "-")), "-"), Suffix, <<>>)

\* originalFileName.split('.').pop()?.toLowerCase() || ''
downloadExtension(origName) == ToLowerCase(Pop(Split(origName, ".")))

\* file.name.split('.').pop() || ''
uploadExtension(name) == Pop(Split(name, "."))

OctetStream == "application/octet-stream"

\* the mimeTypes table
mimeTypes ==
  (<<"p", "d", "f">> :> "application/pdf")
  @@ (<<"d", "o", "c">> :> "application/msword")
  @@ (<<"d", "o", "c", "x">> :>
        "application/vnd.openxmlformats-officedocument.wordprocessingml.document")
  @@ (<<"t", "x", "t">> :> "text/plain")
  @@ (<<"p", "n", "g">> :> "image/png")
  @@ (<<"j", "p", "g">> :> "image/jpeg")
  @@ (<<"j", "p", "e", "g">> :> "image/jpeg")
  @@ (<<"g", "i", "f">> :> "image/gif")

\* what an object literal inherits from Object.prototype: the property names
\* and, as text, the (truthy) values a lookup of them yields
ObjectPrototype ==
  (<<"c", "o", "n", "s", "t", "r", "u", "c", "t", "o", "r">>
        :> "function Object() { [native code] }")
  @@ (<<"_", "_", "p", "r", "o", "t", "o", "_", "_">>
        :> "[object Object]")
  @@ (<<"h", "a", "s", "O", "w", "n", "P", "r", "o", "p", "e", "r", "t", "y">>
        :> "function hasOwnProperty() { [native code] }")
  @@ (<<"i", "s", "P", "r", "o", "t", "o", "t", "y", "p", "e", "O", "f">>
        :> "function isPrototypeOf() { [native code] }")
  @@ (<<"p", "r", "o", "p", "e", "r", "t", "y", "I", "s", "E", "n", "u", "m", "e", "r", "a", "b", "l", "e">>
        :> "function propertyIsEnumerable() { [native code] }")
  @@ (<<"t", "o", "L", "o", "c", "a", "l", "e", "S", "t", "r", "i", "n", "g">>
        :> "function toLocaleString() { [native code] }")
  @@ (<<"t", "o", "S", "t", "r", "i", "n", "g">>
        :> "function toString() { [native code] }")
  @@ (<<"v", "a", "l", "u", "e", "O", "f">>
        :> "function valueOf() { [native code] }")
  @@ (<<"_", "_", "d", "e", "f", "i", "n", "e", "G", "e", "t", "t", "e", "r", "_", "_">>
        :> "function __defineGetter__() { [native code] }")
  @@ (<<"_", "_", "d", "e", "f", "i", "n", "e", "S", "e", "t", "t", "e", "r", "_", "_">>
        :> "function __defineSetter__() { [native code] }")
  @@ (<<"_", "_", "l", "o", "o", "k", "u", "p", "G", "e", "t", "t", "e", "r", "_", "_">>
        :> "function __lookupGetter__() { [native code] }")
  @@ (<<"_", "_", "l", "o", "o", "k", "u", "p", "S", "e", "t", "t", "e", "r", "_", "_">>
        :> "function __lookupSetter__() { [native code] }")

\* mimeTypes[extension] || 'application/octet-stream': the lookup finds own
\* and inherited properties
getMimeType(extension) ==
  IF extension \in DOMAIN mimeTypes THEN mimeTypes[extension]
  ELSE IF extension \in DOMAIN ObjectPrototype THEN ObjectPrototype[extension]
  ELSE OctetStream

(***************************************************************************)
(* Base64: Buffer.toString('base64') and atob.                             *)
(***************************************************************************)
B64 ==
  <<"A", "B", "C", "D", "E", "F", "G", "H", "I", "J", "K", "L", "M",
    "N", "O", "P", "Q", "R", "S", "T", "U", "V", "W", "X", "Y", "Z",
    "a", "b", "c", "d", "e", "f", "g", "h", "i", "j", "k", "l", "m",
    "n", "o", "p", "q", "r", "s", "t", "u", "v", "w", "x", "y", "z",
    "0", "1", "2", "3", "4", "5", "6", "7", "8", "9", "+", "/">>

IsB64Char(c) == \E i \in 1..64 : B64[i] = c

\* the 6-bit value of a base64 character
B64Value(c) == (CHOOSE i \in 1..64 : B64[i] = c) - 1

\* Buffer.from(bytes).toString('base64'): 3 bytes to 4 characters, '=' padded
RECURSIVE toBase64(_)
toBase64(bytes) ==
  IF Len(bytes) = 0 THEN <<>>
  ELSE IF Len(bytes) = 1 THEN
    <<B64[(bytes[1] \div 4) + 1], B64[((bytes[1] % 4) * 16) + 1], "=", "=">>
  ELSE IF Len(bytes) = 2 THEN
    <<B64[(bytes[1] \div 4) + 1],
      B64[((bytes[1] % 4) * 16) + (bytes[2] \div 16) + 1],
      B64[((bytes[2] % 16) * 4) + 1], "=">>
  ELSE
    <<B64[(bytes[1] \div 4) + 1],
      B64[((bytes[1] % 4) * 16) + (bytes[2] \div 16) + 1],
      B64[((bytes[2] % 16) * 4) + (bytes[3] \div 64) + 1],
      B64[(bytes[3] % 64) + 1]>> \o toBase64(SubSeq(bytes, 4, Len(bytes)))

\* the bytes of a run of base64 characters without padding
RECURSIVE B64Bytes(_)
B64Bytes(cs) ==
  IF Len(cs) < 2 THEN <<>>
  ELSE
    LET v1 == B64Value(cs[1])
        v2 == B64Value(cs[2])
        b1 == (v1 * 4) + (v2 \div 16)
    IN  IF Len(cs) = 2 THEN <<b1>>
        ELSE
          LET v3 == B64Value(cs[3])
              b2 == ((v2 % 16) * 16) + (v3 \div 4)
          IN  IF Len(cs) = 3 THEN <<b1, b2>>
              ELSE <<b1, b2, ((v3 % 4) * 64) + B64Value(cs[4])>>
                     \o B64Bytes(SubSeq(cs, 5, Len(cs)))

StripSpaces(text) == SelectSeq(text, LAMBDA c : c # " ")

\* trailing '=' removed as atob does: one or two, only when length % 4 = 0
StripPadding(text) ==
  IF Len(text) % 4 # 0 \/ Len(text) = 0 THEN text
  ELSE IF text[Len(text)] # "=" THEN text
  ELSE IF text[Len(text) - 1] = "=" THEN SubSeq(text, 1, Len(text) - 2)
  ELSE SubSeq(text, 1, Len(text) - 1)

\* atob(text) followed by charCodeAt of every character:
\* [thrown |-> TRUE] is atob's InvalidCharacterError
atob(text) ==
  LET data == StripPadding(StripSpaces(text))
  IN  IF Len(data) % 4 = 1 \/ \E i \in 1..Len(data) : ~IsB64Char(data[i])
      THEN [thrown |-> TRUE, bytes |-> <<>>]
      ELSE [thrown |-> FALSE, bytes |-> B64Bytes(data)]


(***************************************************************************)
(* The cipher.  CryptoJS.AES.encrypt(text, password) is kept abstract: a   *)
(* ciphertext remembers the passphrase it was made with and its plaintext. *)
(* Decrypting with the same passphrase returns the plaintext.  Decrypting  *)
(* with another passphrase yields pseudo-random bytes, which CryptoJS      *)
(* unpads without validation and decodes as UTF-8: the result is an        *)
(* exception ('Malformed UTF-8 data'), the empty string, or some text,     *)
(* which in rare cases consists of base64 characters only.  The model      *)
(* takes every one of these outcomes as possible.                          *)
(***************************************************************************)
AESEncrypt(text, pw) == [key |-> pw, pt |-> text]

NoBlob == [key |-> "", pt |-> <<>>]

\* texts a wrong-passphrase decryption can produce
GarbageTexts == { <<>>, <<"#", "Q">>, <<"Q", "Q">> }

WrongKeyOutcomes ==
  { [thrown |-> TRUE, text |-> <<>>] }
    \cup { [thrown |-> FALSE, text |-> g] : g \in GarbageTexts }

\* the possible results of AES.decrypt(ct, pw).toString(CryptoJS.enc.Utf8)
AESDecryptUtf8(ct, pw) ==
  IF pw = ct.key THEN { [thrown |-> FALSE, text |-> ct.pt] }
  ELSE WrongKeyOutcomes

(***************************************************************************)
(* Payloads written by the two versions of the uploader.                   *)
(***************************************************************************)
\* JSON.stringify({content, metadata: {originalType, originalExt}}); the
\* MIME type is kept as one token
envelopeText(content, type, ext) ==
  <<"{", "\"", "c", "o", "n", "t", "e", "n", "t", "\"", ":", "\"">>
    \o content
    \o <<"\"", ",", "\"", "m", "e", "t", "a", "d", "a", "t", "a", "\"", ":",
         "{", "\"", "o", "r", "i", "g", "i", "n", "a", "l", "T", "y", "p",
         "e", "\"", ":", "\"", type, "\"", ",", "\"", "o", "r", "i", "g",
         "i", "n", "a", "l", "E", "x", "t", "\"", ":", "\"">>
    \o ext \o <<"\"", "}", "}">>

\* current FileUploader: the envelope is what gets encrypted
dataToEncrypt(file) ==
  envelopeText(toBase64(file.bytes), file.type, uploadExtension(file.name))

encryptedBlob(file, pw) == AESEncrypt(dataToEncrypt(file), pw)

\* earlier FileUploader: the bare base64 string is what gets encrypted
legacyEncryptedBlob(file, pw) == AESEncrypt(toBase64(file.bytes), pw)

(***************************************************************************)
(* Inputs.                                                                 *)
(***************************************************************************)
NameA == <<"a", ".", "t", "x", "t">>
NameB == <<"b", ".", "P", "N", "G">>
NameC == <<"c", ".", "e", "x", "e">>

\* a File of the browser: size is the byte length, except for the two
\* large files, whose `bytes` stand for their whole content
FileA == [name |-> NameA, type |-> "text/plain", size |-> 1, bytes |-> <<65>>]
\* another file named a.txt, one byte over the limit
FileA2 ==
  [name |-> NameA, type |-> "text/plain", size |-> MAX_FILE_SIZE + 1,
   bytes |-> <<66, 67>>]
\* exactly at the limit
FileB ==
  [name |-> NameB, type |-> "image/png", size |-> MAX_FILE_SIZE,
   bytes |-> <<255, 0, 16>>]
FileC ==
  [name |-> NameC, type |-> "application/x-msdownload", size |-> 2,
   bytes |-> <<77, 90>>]
FileEmpty == [name |-> NameB, type |-> "image/png", size |-> 0, bytes |-> <<>>]

\* the FileList objects the user selects or drops
SampleBatches ==
  { <<>>, <<FileA>>, <<FileA2>>, <<FileA, FileA2>>, <<FileA2, FileA>>,
    <<FileA, FileC, FileB>> }

Short == "1234567"
Pass1 == "12345678"
Pass2 == "password2"
Passwords == { "", Short, Pass1 }

(***************************************************************************)
(* State.                                                                  *)
(***************************************************************************)
VARIABLES
  \* FileUploader (current version)
  password,        \* useState('')
  upError,         \* useState<string | null>(null)
  uploadingFiles,  \* useState<UploadingFile[]>([]); `of` is a ghost field
  batches,         \* the handleUpload invocations and where each stands
  \* FileUploader (earlier version)
  v1password,      \* useState('')
  v1uploading,     \* useState(false)
  v1runs,          \* the earlier handleUpload invocations still running
  \* collaborators
  storage,         \* bucket 'encrypted-files': storage key -> blob
  origin,          \* ghost: storage key -> the bytes and password it was made from
  now,             \* the last value Date.now() returned
  \* FileList
  files,           \* useState<any[]>([]): the names of the listed records
  downloadPassword,
  loading,
  operatingFiles,
  error,
  inflight,        \* bag of the downloads and deletes awaiting storage
  fetch,           \* the list call of fetchFiles
  \* naming and codec specifications
  pure,
  \* ghost: what the step just taken sent out
  ev,
  \* what the components are rendered with
  props,           \* onUploadComplete passed or not; fileName of the modal
  \* ShareFileModal
  modal,           \* isOpen and the five useState values; `asked` is a ghost
  fileShares       \* table file_shares

upVars == <<password, upError, uploadingFiles, batches>>
v1Vars == <<v1password, v1uploading, v1runs>>
listVars ==
  <<files, downloadPassword, loading, operatingFiles, error, inflight, fetch>>
storeVars == <<storage, origin>>
modalVars == <<modal, fileShares>>
vars == <<upVars, v1Vars, storeVars, now, listVars, pure, ev, props, modalVars>>

NoCall == [fn |-> "none", key |-> <<>>, blob |-> NoBlob]
UploadCall(key, blob) == [fn |-> "upload", key |-> key, blob |-> blob]
KeyCall(fn, key) == [fn |-> fn, key |-> key, blob |-> NoBlob]

\* supabase.storage.from('encrypted-files').download(fileName), .remove([fileName])
\* and .list()
downloadRequest(fileName) == KeyCall("download", fileName)
removeRequest(fileName) == KeyCall("remove", fileName)
listRequest == KeyCall("list", <<>>)

\* the browser save action: a.download, the Blob's type and its bytes
NoSave == [saved |-> FALSE, name |-> <<>>, type |-> "", bytes |-> <<>>]
SaveAs(name, type, bytes) ==
  [saved |-> TRUE, name |-> name, type |-> type, bytes |-> bytes]

\* what a step sends out: the storage call it issues and the save action it
\* triggers
NoOperation == [kind |-> "none", key |-> <<>>, pw |-> ""]

\* what a step sends out: the storage call it issues; and, when the step ends
\* a handler of the list view: the operation that ended, whether its storage
\* call succeeded, and the save action it triggered
Output(call, save) ==
  [call |-> call, save |-> save, alert |-> "", done |-> NoOperation,
   got |-> FALSE, confirm |-> "none"]
Quiet == Output(NoCall, NoSave)
Ended(op, got, save) ==
  [call |-> NoCall, save |-> save, alert |-> "", done |-> op, got |-> got,
   confirm |-> "none"]
\* alert(msg) of the earlier uploader
Alert(msg) ==
  [call |-> NoCall, save |-> NoSave, alert |-> msg, done |-> NoOperation,
   got |-> FALSE, confirm |-> "none"]
\* confirm('Are you sure you want to delete this file?') and its answer
Confirmed(answer, call) ==
  [call |-> call, save |-> NoSave, alert |-> "", done |-> NoOperation,
   got |-> FALSE, confirm |-> IF answer THEN "yes" ELSE "no"]


(***************************************************************************)
(* FileUploader, current version.                                          *)
(***************************************************************************)
\* validatePassword of '@/lib/utils' (not in the sources): the policy the
\* specification and the error message state
validatePassword(pw) == Len(pw) >= 8

\* mutant: the gate of the earlier version, if (!password)
GateRejectsEmptyOnly(pw) == pw = ""

\* the gate of handleUpload: if (!validatePassword(password)) { ...; return }
GateRejects(pw) == ~validatePassword(pw)

validateFile(file) ==
  IF file.type \notin ALLOWED_TYPES THEN FileTypeMsg
  ELSE IF file.size > MAX_FILE_SIZE THEN FileSizeMsg
  ELSE NoError

\* { ...file, ...updates }
Merge(task, updates) ==
  [k \in DOMAIN task |-> IF k \in DOMAIN updates THEN updates[k] ELSE task[k]]

\* prev.map(file => file.name === fileName ? { ...file, ...updates } : file)
updateFileProgress(tasks, fileName, updates) ==
  [n \in 1..Len(tasks) |->
     IF tasks[n].name = fileName THEN Merge(tasks[n], updates) ELSE tasks[n]]

\* Array.from(files).map(file => ({name, progress: 0, status: 'uploading'}));
\* the ghost field `of` names the batch and the position the task was made for
newFiles(fl, b) ==
  [j \in 1..Len(fl) |->
     [name |-> fl[j].name, progress |-> 0, status |-> "uploading",
      error |-> NoError, of |-> <<b, j>>]]

\* ghost: the loop issued `op` for file i of its batch; op is a progress
\* value, "put", "complete" or "error"
Issued(i, op) == [i |-> i, op |-> op]

\* mutant: the loop without the `continue` after a validation error
ProcessFromNoContinue(tasks, fl, i, out, log) ==
  IF i > Len(fl)
  THEN [tasks |-> tasks, i |-> i, pc |-> "timer", out |-> out, log |-> log]
  ELSE IF validateFile(fl[i]) # NoError THEN
    [tasks |-> updateFileProgress(
                 updateFileProgress(tasks, fl[i].name,
                   [status |-> "error", error |-> validateFile(fl[i])]),
                 fl[i].name, [progress |-> 25]),
     i |-> i, pc |-> "read", out |-> out,
     log |-> log \o <<Issued(i, "error"), Issued(i, "25")>>]
  ELSE [tasks |-> updateFileProgress(tasks, fl[i].name, [progress |-> 25]),
        i |-> i, pc |-> "read", out |-> out,
        log |-> Append(log, Issued(i, "25"))]

\* The for loop of handleUpload from file i up to its next await or its end:
\* files that fail validation are marked and skipped, a valid file gets
\* progress 25 and the loop awaits its arrayBuffer(); past the last file the
\* prune timer is set.  `out` and `log` are ghosts: what became of each file
\* so far, and what the loop issued in which order.
RECURSIVE ProcessFrom(_, _, _, _, _)
ProcessFrom(tasks, fl, i, out, log) ==
  IF i > Len(fl)
  THEN [tasks |-> tasks, i |-> i, pc |-> "timer", out |-> out, log |-> log]
  ELSE IF validateFile(fl[i]) # NoError THEN
    ProcessFrom(
      updateFileProgress(tasks, fl[i].name,
                         [status |-> "error", error |-> validateFile(fl[i])]),
      fl, i + 1, Append(out, "invalid"), Append(log, Issued(i, "error")))
  ELSE [tasks |-> updateFileProgress(tasks, fl[i].name, [progress |-> 25]),
        i |-> i, pc |-> "read", out |-> out,
        log |-> Append(log, Issued(i, "25"))]

\* ghost: how many prune timers have been set so far
TimersSet == Cardinality({ b \in 1..Len(batches) : batches[b].armed > 0 })

\* ghost: the position of a timer set now among the timers set, 0 while the
\* loop is still running
armedAt(pc) == IF pc = "timer" THEN TimersSet + 1 ELSE 0

\* the loop goes on after file i of batch b ended with `result`, having
\* issued `op` for it
Continue(b, tasks, result, op) ==
  LET r == ProcessFrom(tasks, batches[b].files, batches[b].i + 1,
                       Append(batches[b].out, result),
                       Append(batches[b].log, Issued(batches[b].i, op)))
  IN  /\ uploadingFiles' = r.tasks
      /\ batches' = [batches EXCEPT ![b] =
                       [@ EXCEPT !.i = r.i, !.pc = r.pc, !.out = r.out,
                                 !.log = r.log, !.armed = armedAt(r.pc),
                                 !.key = <<>>, !.blob = NoBlob]]

\* onChange of the password field
TypePassword(p) ==
  /\ p # password
  /\ password' = p
  /\ ev' = Quiet
  /\ UNCHANGED <<upError, uploadingFiles, batches, v1Vars, storeVars, now,
                 listVars, pure, props, modalVars>>

\* handleUpload(files) run by a closure that holds `pw` as its password
HandleUploadWith(fl, pw) ==
  /\ ev' = Quiet
  /\ IF GateRejects(pw)
     THEN /\ upError' = PasswordTooShortMsg
          /\ UNCHANGED <<uploadingFiles, batches>>
     ELSE /\ Len(batches) < MaxBatches
          /\ upError' = NoError
          /\ LET b == Len(batches) + 1
                 r == ProcessFrom(uploadingFiles \o newFiles(fl, b), fl, 1,
                                  <<>>, <<>>)
             IN  /\ uploadingFiles' = r.tasks
                 /\ batches' = Append(batches,
                      [files |-> fl, i |-> r.i, pc |-> r.pc, pw |-> pw,
                       key |-> <<>>, blob |-> NoBlob, out |-> r.out,
                       log |-> r.log, armed |-> armedAt(r.pc),
                       called |-> 0])
  /\ UNCHANGED <<password, v1Vars, storeVars, now, listVars, pure, props, modalVars>>

\* the file input: onChange={(e) => handleUpload(e.target.files)}, the
\* handleUpload of the current render
HandleFileInput(fl) == HandleUploadWith(fl, password)

\* the password handleDrop's handleUpload holds: useCallback(..., []) keeps
\* the handleDrop of the first render, whose handleUpload closes over the
\* password of the first render
DropPassword == InitialPassword

\* the drop zone: onDrop={handleDrop}
HandleDrop(fl) == HandleUploadWith(fl, DropPassword)

\* mutant: the password used as the folder of the storage key
uploadRequestUnderPassword(file, pw, t) ==
  UploadCall(<<pw, "/">> \o makeKey(file.name, t), encryptedBlob(file, pw))

\* .upload(fileName, encryptedBlob) of a file read at time t: the key built
\* from Date.now() and the name, the body encrypted under pw
uploadRequest(file, pw, t) ==
  UploadCall(makeKey(file.name, t), encryptedBlob(file, pw))

\* await file.arrayBuffer() of the current file of batch b settles
ReadReturns(b, ok) ==
  /\ b \in 1..Len(batches)
  /\ batches[b].pc = "read"
  /\ LET f == batches[b].files[batches[b].i]
     IN  IF ok
         THEN \E t \in now..MaxTime :
                LET blob == uploadRequest(f, batches[b].pw, t).blob
                    key == uploadRequest(f, batches[b].pw, t).key
                IN  /\ now' = t
                    /\ uploadingFiles' =
                         updateFileProgress(
                           updateFileProgress(uploadingFiles, f.name,
                                              [progress |-> 50]),
                           f.name, [progress |-> 75])
                    /\ batches' = [batches EXCEPT ![b] =
                                     [@ EXCEPT !.pc = "put", !.key = key,
                                               !.blob = blob,
                                               !.log = @ \o
                                                 <<Issued(batches[b].i, "50"),
                                                   Issued(batches[b].i, "75"),
                                                   Issued(batches[b].i, "put")>>]]
                    /\ ev' = Output(uploadRequest(f, batches[b].pw, t), NoSave)
         ELSE /\ Continue(b, updateFileProgress(uploadingFiles, f.name,
                               [status |-> "error", error |-> UploadFailedMsg]),
                          "readfail", "error")
              /\ ev' = Quiet
              /\ now' = now
  /\ UNCHANGED <<password, upError, v1Vars, storeVars, listVars, pure, props, modalVars>>

\* a function with key mapped to val
Put(f, key, val) ==
  [k \in DOMAIN f \cup {key} |-> IF k = key THEN val ELSE f[k]]

\* the bucket takes blob under key; the ghost remembers what it was made from
StoragePut(key, blob, file) ==
  /\ storage' = Put(storage, key, blob)
  /\ origin' = Put(origin, key, [bytes |-> file.bytes, pw |-> blob.key])

\* await supabase.storage.from('encrypted-files').upload(...) of batch b settles
PutReturns(b, ok) ==
  /\ b \in 1..Len(batches)
  /\ batches[b].pc = "put"
  /\ LET f == batches[b].files[batches[b].i]
     IN  IF ok
         THEN /\ StoragePut(batches[b].key, batches[b].blob, f)
              /\ Continue(b, updateFileProgress(uploadingFiles, f.name,
                               [status |-> "complete", progress |-> 100]),
                          "stored", "complete")
         ELSE /\ UNCHANGED storeVars
              /\ Continue(b, updateFileProgress(uploadingFiles, f.name,
                               [status |-> "error", error |-> UploadFailedMsg]),
                          "putfail", "error")
  /\ ev' = Quiet
  /\ UNCHANGED <<password, upError, v1Vars, now, listVars, pure, props, modalVars>>

\* mutant: the callback invoked by the timer and once more
invokeTwice(callback, called) == IF callback THEN called + 2 ELSE called

\* if (onUploadComplete) onUploadComplete(); `called` counts the invocations
invoke(callback, called) == IF callback THEN called + 1 ELSE called

\* prev.filter(f => f.status === 'uploading')
prune(prev) == SelectSeq(prev, LAMBDA file : file.status = "uploading")

\* the setTimeout(..., 3000) callback of batch b; timers of one delay fire
\* in the order they were set
TimerFires(b) ==
  /\ b \in 1..Len(batches)
  /\ batches[b].pc = "timer"
  /\ \A o \in 1..Len(batches) :
       batches[o].pc = "timer" => batches[o].armed >= batches[b].armed
  /\ uploadingFiles' = prune(uploadingFiles)
  /\ batches' = [batches EXCEPT ![b] =
                   [@ EXCEPT !.pc = "done",
                             !.called = invoke(props.onUploadComplete, @)]]
  /\ ev' = Quiet
  /\ UNCHANGED <<password, upError, v1Vars, storeVars, now, listVars, pure, props, modalVars>>

UploaderNext ==
  \/ \E p \in Passwords : TypePassword(p)
  \/ \E fl \in SampleBatches : HandleFileInput(fl)
  \/ \E fl \in SampleBatches : HandleDrop(fl)
  \/ \E b \in 1..MaxBatches, ok \in BOOLEAN : ReadReturns(b, ok)
  \/ \E b \in 1..MaxBatches, ok \in BOOLEAN : PutReturns(b, ok)
  \/ \E b \in 1..MaxBatches : TimerFires(b)

\* an empty function: the empty bucket
EmptyStorage == [k \in {} |-> NoBlob]

InitUploader ==
  /\ password = InitialPassword
  /\ upError = NoError
  /\ uploadingFiles = <<>>
  /\ batches = <<>>

InitV1 ==
  /\ v1password = InitialPassword
  /\ v1uploading = FALSE
  /\ v1runs = <<>>

\* FileList after its first render and its mount effect: fetchFiles has
\* sent the list call
InitList ==
  /\ files = {}
  /\ downloadPassword = InitialPassword
  /\ loading = TRUE
  /\ operatingFiles = {}
  /\ error = NoError
  /\ inflight = EmptyBag
  /\ fetch = [pc |-> "sent", ok |-> TRUE, nodata |-> FALSE, data |-> {},
               gone |-> {}]

\* NoRow, NoLink, NoAsk: no row in flight, no link, no generation asked
NoRow == [id |-> "", file_name |-> <<>>, expires_at |-> 0, created_at |-> 0]
NoLink == "null"
NoAsk == [at |-> 0, days |-> 0]

\* `useState(7)` of expiryDays
DefaultExpiryDays == 7

\* ShareFileModal before its first click, closed
InitModal ==
  /\ modal = [isOpen |-> FALSE, isGenerating |-> FALSE, shareLink |-> NoLink,
              error |-> NoError, copied |-> FALSE,
              expiryDays |-> DefaultExpiryDays, pending |-> NoRow,
              asked |-> NoAsk]
  /\ fileShares = {}

\* <FileUploader /> of the page: no onUploadComplete; the page renders no
\* ShareFileModal
PageProps == [onUploadComplete |-> FALSE, fileName |-> <<>>]

InitCommon ==
  /\ InitUploader
  /\ InitV1
  /\ InitList
  /\ InitModal
  /\ now = 1
  /\ ev = Output(listRequest, NoSave)

\* the page with an empty bucket, the uploader alone acting
NoPure == [stage |-> "none"]

InitUpload ==
  /\ InitCommon
  /\ \E passed \in BOOLEAN :
       props = [onUploadComplete |-> passed, fileName |-> <<>>]
  /\ pure = NoPure
  /\ storage = EmptyStorage
  /\ origin = EmptyStorage

SpecUpload == InitUpload /\ [][UploaderNext]_vars

\* the uploader with what the runtime guarantees: a pending arrayBuffer()
\* or put settles, and a timer that was set fires
Settles ==
  \E b \in 1..MaxBatches :
    \/ \E ok \in BOOLEAN : ReadReturns(b, ok)
    \/ \E ok \in BOOLEAN : PutReturns(b, ok)
    \/ TimerFires(b)

UploaderFairness == WF_vars(Settles)

\* the batches of the runs checked for progress: an empty one, one whose
\* only valid file follows its oversized namesake, and one of three files
LiveBatches == { <<>>, <<FileA2, FileA>>, <<FileA, FileC, FileB>> }

UploaderNextLive ==
  \/ \E p \in Passwords : TypePassword(p)
  \/ \E fl \in LiveBatches : HandleFileInput(fl)
  \/ \E fl \in LiveBatches : HandleDrop(fl)
  \/ \E b \in 1..MaxBatches, ok \in BOOLEAN : ReadReturns(b, ok)
  \/ \E b \in 1..MaxBatches, ok \in BOOLEAN : PutReturns(b, ok)
  \/ \E b \in 1..MaxBatches : TimerFires(b)

\* the uploader given an onUploadComplete
InitUploadLive ==
  /\ InitCommon
  /\ props = [onUploadComplete |-> TRUE, fileName |-> <<>>]
  /\ pure = NoPure
  /\ storage = EmptyStorage
  /\ origin = EmptyStorage

SpecUploadLive ==
  InitUploadLive /\ [][UploaderNextLive]_vars /\ UploaderFairness


(***************************************************************************)
(* FileUploader, earlier version: one try block around the whole loop, the *)
(* first failure ends the batch.                                           *)
(***************************************************************************)
V1TypePassword(p) ==
  /\ p # v1password
  /\ v1password' = p
  /\ ev' = Quiet
  /\ UNCHANGED <<upVars, v1uploading, v1runs, storeVars, now, listVars, pure, props, modalVars>>

\* run r leaves the loop: finally { setUploading(false) }
V1Finish(r, msg) ==
  /\ v1uploading' = FALSE
  /\ v1runs' = [n \in 1..(Len(v1runs) - 1) |->
                  IF n < r THEN v1runs[n] ELSE v1runs[n + 1]]
  /\ ev' = Alert(msg)

V1HandleUpload(fl) ==
  /\ IF v1password = ""
     THEN /\ ev' = Alert("Please select files and enter a password")
          /\ UNCHANGED <<v1uploading, v1runs>>
     ELSE IF Len(fl) = 0
     THEN /\ v1uploading' = FALSE
          /\ ev' = Alert("Files uploaded successfully!")
          /\ UNCHANGED v1runs
     ELSE /\ Len(v1runs) < MaxBatches
          /\ v1uploading' = TRUE
          /\ v1runs' = Append(v1runs,
               [files |-> fl, i |-> 1, pc |-> "read", pw |-> v1password,
                key |-> <<>>, blob |-> NoBlob])
          /\ ev' = Quiet
  /\ UNCHANGED <<upVars, v1password, storeVars, now, listVars, pure, props, modalVars>>

\* await file.arrayBuffer() of run r settles
V1ReadReturns(r, ok) ==
  /\ r \in 1..Len(v1runs)
  /\ v1runs[r].pc = "read"
  /\ LET f == v1runs[r].files[v1runs[r].i]
     IN  IF ok
         THEN \E t \in now..MaxTime :
                LET blob == legacyEncryptedBlob(f, v1runs[r].pw)
                    key == makeKey(f.name, t)
                IN  /\ now' = t
                    /\ v1runs' = [v1runs EXCEPT ![r] =
                                    [@ EXCEPT !.pc = "put", !.key = key,
                                              !.blob = blob]]
                    /\ ev' = Output(UploadCall(key, blob), NoSave)
                    /\ UNCHANGED v1uploading
         ELSE /\ V1Finish(r, "Error uploading files")
              /\ now' = now
  /\ UNCHANGED <<upVars, v1password, storeVars, listVars, pure, props, modalVars>>

\* await supabase.storage.from('encrypted-files').upload(...) of run r settles
V1PutReturns(r, ok) ==
  /\ r \in 1..Len(v1runs)
  /\ v1runs[r].pc = "put"
  /\ IF ~ok
     THEN /\ V1Finish(r, "Error uploading files")
          /\ UNCHANGED storeVars
     ELSE /\ StoragePut(v1runs[r].key, v1runs[r].blob,
                        v1runs[r].files[v1runs[r].i])
          /\ IF v1runs[r].i = Len(v1runs[r].files)
             THEN V1Finish(r, "Files uploaded successfully!")
             ELSE /\ v1runs' = [v1runs EXCEPT ![r] =
                                  [@ EXCEPT !.i = @ + 1, !.pc = "read",
                                            !.key = <<>>, !.blob = NoBlob]]
                  /\ ev' = Quiet
                  /\ UNCHANGED v1uploading
  /\ UNCHANGED <<upVars, v1password, now, listVars, pure, props, modalVars>>

V1Next ==
  \/ \E p \in Passwords : V1TypePassword(p)
  \/ \E fl \in SampleBatches : V1HandleUpload(fl)
  \/ \E r \in 1..MaxBatches, ok \in BOOLEAN : V1ReadReturns(r, ok)
  \/ \E r \in 1..MaxBatches, ok \in BOOLEAN : V1PutReturns(r, ok)

(***************************************************************************)
(* FileList.                                                               *)
(***************************************************************************)
\* mutant: setOperatingFiles(new Set([fileId])), the previous members dropped
addOperatingFileAlone(prev, fileId) == {fileId}

\* setOperatingFiles(prev => new Set(prev).add(fileId))
addOperatingFile(prev, fileId) == prev \cup {fileId}

\* mutant: the set is returned without the delete
removeOperatingFileKept(prev, fileId) == prev

\* setOperatingFiles(prev => { newSet.delete(fileId); return newSet })
removeOperatingFile(prev, fileId) == prev \ {fileId}

\* mutant: the listing keeps only the deleted name (=== for !==)
removeFromListingInverted(prevFiles, fileName) == prevFiles \cap {fileName}

\* prevFiles.filter(file => file.name !== fileName)
removeFromListing(prevFiles, fileName) == prevFiles \ {fileName}

\* the row of k is rendered: not the loader, and k is in the listing
RowShown(k) == ~loading /\ k \in files

\* mutant: the buttons are never disabled
ButtonAlwaysEnabled(k) == TRUE

\* disabled={operatingFiles.has(file.name)} of the row's two buttons
ButtonEnabled(k) == k \notin operatingFiles

Operation(kind, k, pw) == [kind |-> kind, key |-> k, pw |-> pw]

\* the handler of op ends: finally { removeOperatingFile(fileName) }
Finally(op) ==
  /\ operatingFiles' = removeOperatingFile(operatingFiles, op.key)
  /\ inflight' = inflight (-) SetToBag({op})

\* onChange of the decryption password field
TypeDownloadPassword(p) ==
  /\ p # downloadPassword
  /\ downloadPassword' = p
  /\ ev' = Quiet
  /\ UNCHANGED <<upVars, v1Vars, storeVars, now, files, loading,
                 operatingFiles, error, inflight, fetch, pure, props, modalVars>>

\* fetchFiles by the Refresh button (disabled={loading}), up to its await
FetchFiles ==
  /\ ~loading
  /\ loading' = TRUE
  /\ error' = NoError
  /\ fetch' = [pc |-> "sent", ok |-> TRUE, nodata |-> FALSE, data |-> {},
               gone |-> {}]
  /\ ev' = Output(listRequest, NoSave)
  /\ UNCHANGED <<upVars, v1Vars, storeVars, now, files, downloadPassword,
                 operatingFiles, inflight, pure, props, modalVars>>

\* storage answers the list call: an error, or the names it holds then, or
\* no error and no data (data: null)
ListServed(ok) ==
  /\ fetch.pc = "sent"
  /\ \E nodata \in BOOLEAN :
       /\ ~ok => nodata
       /\ fetch' = [pc |-> "replied", ok |-> ok, nodata |-> nodata,
                    data |-> IF nodata THEN {} ELSE DOMAIN storage,
                    gone |-> fetch.gone]
  /\ ev' = Quiet
  /\ UNCHANGED <<upVars, v1Vars, storeVars, now, files, downloadPassword,
                 loading, operatingFiles, error, inflight, pure, props, modalVars>>

\* data || []
dataOrEmpty(reply) == IF reply.nodata THEN {} ELSE reply.data

\* mutant: the render without its files.length === 0 branch
ListViewWithoutEmpty == IF loading THEN "loader" ELSE "rows"

\* what the card shows under the password field: the loader, the empty
\* state 'No files uploaded yet', or the rows
ListView == IF loading THEN "loader" ELSE IF files = {} THEN "empty" ELSE "rows"

\* the await of fetchFiles settles
FetchReturns ==
  /\ fetch.pc = "replied"
  /\ IF fetch.ok
     THEN /\ files' = dataOrEmpty(fetch)
          /\ error' = error
     ELSE /\ error' = FetchFailedMsg
          /\ files' = files
  /\ loading' = FALSE
  /\ fetch' = [pc |-> "idle", ok |-> TRUE, nodata |-> FALSE, data |-> {},
               gone |-> {}]
  /\ ev' = Quiet
  /\ UNCHANGED <<upVars, v1Vars, storeVars, now, downloadPassword,
                 operatingFiles, inflight, pure, props, modalVars>>

\* handleDownload(fileName) by the row's download button, up to its await
HandleDownload(k) ==
  /\ RowShown(k)
  /\ ButtonEnabled(k)
  /\ IF downloadPassword = ""
     THEN /\ error' = NeedPasswordMsg
          /\ ev' = Quiet
          /\ UNCHANGED <<operatingFiles, inflight>>
     ELSE /\ BagCardinality(inflight) < MaxOps
          /\ operatingFiles' = addOperatingFile(operatingFiles, k)
          /\ error' = NoError
          /\ inflight' = inflight (+) SetToBag({Operation("download", k, downloadPassword)})
          /\ ev' = Output(downloadRequest(k), NoSave)
  /\ UNCHANGED <<upVars, v1Vars, storeVars, now, files, downloadPassword,
                 loading, fetch, pure, props, modalVars>>

\* mutant: the inner try block without if (!decrypted) throw
decryptAndSaveUnchecked(fileName, d) ==
  IF d.thrown THEN [thrown |-> TRUE, save |-> NoSave]
  ELSE IF atob(d.text).thrown THEN [thrown |-> TRUE, save |-> NoSave]
  ELSE [thrown |-> FALSE,
        save |-> SaveAs(originalFileName(fileName),
                        getMimeType(downloadExtension(originalFileName(fileName))),
                        atob(d.text).bytes)]

\* The inner try block of handleDownload on the decrypted string d:
\* what it throws, or the save action it triggers
decryptAndSave(fileName, d) ==
  IF d.thrown THEN [thrown |-> TRUE, save |-> NoSave]
  ELSE IF d.text = <<>> THEN [thrown |-> TRUE, save |-> NoSave]
  ELSE IF atob(d.text).thrown THEN [thrown |-> TRUE, save |-> NoSave]
  ELSE [thrown |-> FALSE,
        save |-> SaveAs(originalFileName(fileName),
                        getMimeType(downloadExtension(originalFileName(fileName))),
                        atob(d.text).bytes)]

\* mutant: the outer catch reports the decryption message
downloadErrorMsgSwapped == DecryptFailedMsg

\* the message of the outer catch and of the inner catch
downloadErrorMsg == DownloadFailedMsg
decryptErrorMsg == DecryptFailedMsg

\* the download call of op settles: got is FALSE for a storage error
DownloadReturns(op, got) ==
  /\ op \in BagToSet(inflight)
  /\ op.kind = "download"
  /\ got => op.key \in DOMAIN storage
  /\ IF ~got
     THEN /\ error' = downloadErrorMsg
          /\ ev' = Ended(op, FALSE, NoSave)
     ELSE \E d \in AESDecryptUtf8(storage[op.key], op.pw) :
            LET r == decryptAndSave(op.key, d)
            IN  /\ error' = IF r.thrown THEN decryptErrorMsg ELSE error
                /\ ev' = Ended(op, TRUE, r.save)
  /\ Finally(op)
  /\ UNCHANGED <<upVars, v1Vars, storeVars, now, files, downloadPassword,
                 loading, fetch, pure, props, modalVars>>

\* mutant: handleDelete without the confirm prompt's early return
HandleDeleteAnyway(k, confirmed) ==
  /\ RowShown(k)
  /\ ButtonEnabled(k)
  /\ BagCardinality(inflight) < MaxOps
  /\ operatingFiles' = addOperatingFile(operatingFiles, k)
  /\ error' = NoError
  /\ inflight' = inflight (+) SetToBag({Operation("delete", k, "")})
  /\ ev' = Confirmed(confirmed, removeRequest(k))
  /\ UNCHANGED <<upVars, v1Vars, storeVars, now, files, downloadPassword,
                 loading, fetch, pure, props, modalVars>>

\* handleDelete(fileName) by the row's delete button, up to its await
HandleDelete(k, confirmed) ==
  /\ RowShown(k)
  /\ ButtonEnabled(k)
  /\ IF ~confirmed
     THEN /\ ev' = Confirmed(FALSE, NoCall)
          /\ UNCHANGED <<operatingFiles, error, inflight>>
     ELSE /\ BagCardinality(inflight) < MaxOps
          /\ operatingFiles' = addOperatingFile(operatingFiles, k)
          /\ error' = NoError
          /\ inflight' = inflight (+) SetToBag({Operation("delete", k, "")})
          /\ ev' = Confirmed(TRUE, removeRequest(k))
  /\ UNCHANGED <<upVars, v1Vars, storeVars, now, files, downloadPassword,
                 loading, fetch, pure, props, modalVars>>

\* f without key k
Without(f, k) == [x \in DOMAIN f \ {k} |-> f[x]]

\* the remove call of op settles
\* ghost: the keys deleted from storage while the list call is under way
noteGone(call, key) ==
  IF call.pc = "idle" THEN call ELSE [call EXCEPT !.gone = @ \cup {key}]

DeleteReturns(op, ok) ==
  /\ op \in BagToSet(inflight)
  /\ op.kind = "delete"
  /\ IF ok
     THEN /\ storage' = Without(storage, op.key)
          /\ origin' = Without(origin, op.key)
          /\ files' = removeFromListing(files, op.key)
          /\ fetch' = noteGone(fetch, op.key)
          /\ error' = error
     ELSE /\ error' = DeleteFailedMsg
          /\ UNCHANGED <<storeVars, files, fetch>>
  /\ ev' = Ended(op, ok, NoSave)
  /\ Finally(op)
  /\ UNCHANGED <<upVars, v1Vars, now, downloadPassword, loading, pure, props, modalVars>>

DownloadPasswords == { "", Pass1, Pass2 }

\* every storage key the model can build
AllKeys ==
  { makeKey(n, t) : n \in {NameA, NameB, NameC}, t \in 1..MaxTime }

AllOperations ==
  { Operation("download", k, p) : k \in AllKeys, p \in DownloadPasswords }
    \cup { Operation("delete", k, "") : k \in AllKeys }

ListNext ==
  \/ \E p \in DownloadPasswords : TypeDownloadPassword(p)
  \/ FetchFiles
  \/ \E ok \in BOOLEAN : ListServed(ok)
  \/ FetchReturns
  \/ \E k \in AllKeys : HandleDownload(k)
  \/ \E op \in AllOperations, got \in BOOLEAN : DownloadReturns(op, got)
  \/ \E k \in AllKeys, c \in BOOLEAN : HandleDelete(k, c)
  \/ \E op \in AllOperations, ok \in BOOLEAN : DeleteReturns(op, ok)

(***************************************************************************)
(* The bucket a page finds when it loads: what earlier sessions of the two *)
(* uploaders put there.                                                    *)
(***************************************************************************)
Upload(version, file, pw, t) ==
  [key |-> makeKey(file.name, t),
   blob |-> IF version = "current" THEN encryptedBlob(file, pw)
            ELSE legacyEncryptedBlob(file, pw),
   src |-> [bytes |-> file.bytes, pw |-> pw]]

EarlierUploads ==
  { Upload("current", FileA, Pass1, 1),
    Upload("legacy", FileB, Pass1, MaxTime),
    Upload("legacy", FileEmpty, Pass2, 1) }

BucketOf(ups) ==
  [k \in { u.key : u \in ups } |-> (CHOOSE u \in ups : u.key = k).blob]
OriginOf(ups) ==
  [k \in { u.key : u \in ups } |-> (CHOOSE u \in ups : u.key = k).src]

InitLoaded ==
  /\ InitCommon
  /\ props = PageProps
  /\ pure = NoPure
  /\ \E ups \in SUBSET EarlierUploads :
       /\ Cardinality(ups) <= MaxSeeds
       /\ storage = BucketOf(ups)
       /\ origin = OriginOf(ups)

\* the list view over a bucket filled earlier
SpecList == InitLoaded /\ [][ListNext]_vars

\* the whole page, from an empty bucket
Init ==
  /\ InitCommon
  /\ props = PageProps
  /\ pure = NoPure
  /\ storage = EmptyStorage
  /\ origin = EmptyStorage
Next == UploaderNext \/ V1Next \/ ListNext
Spec == Init /\ [][Next]_vars


(***************************************************************************)
(* The naming scheme alone: a storage key is built from a name and a       *)
(* timestamp as the uploader builds it, then parsed as the download does.  *)
(***************************************************************************)
NameParts == { <<"a">>, <<"B">>, <<".">>, <<"-">>, Suffix }

\* the names made of exactly n parts
RECURSIVE NamesOf(_)
NamesOf(n) ==
  IF n = 0 THEN { <<>> }
  ELSE { x \o y : x \in NamesOf(n - 1), y \in NameParts }

FileNames == UNION { NamesOf(n) : n \in 1..MaxNameParts }

\* `${Date.now()}-${file.name}.encrypted` and the extension kept as metadata
BuildKey ==
  /\ pure.stage = "input"
  /\ pure' = [stage |-> "key", name |-> pure.name, t |-> pure.t,
              key |-> makeKey(pure.name, pure.t),
              originalExt |-> uploadExtension(pure.name)]
  /\ UNCHANGED <<upVars, v1Vars, storeVars, now, listVars, ev, props, modalVars>>

\* the key parsing of handleDownload
ParseKey ==
  /\ pure.stage = "key"
  /\ pure' = [stage |-> "parsed", name |-> pure.name, t |-> pure.t,
              key |-> pure.key,
              originalFileName |-> originalFileName(pure.key),
              fileExtension |-> downloadExtension(originalFileName(pure.key)),
              mimeType |->
                getMimeType(downloadExtension(originalFileName(pure.key)))]
  /\ UNCHANGED <<upVars, v1Vars, storeVars, now, listVars, ev, props, modalVars>>

NamingNext == BuildKey \/ ParseKey

InitNaming ==
  /\ InitCommon
  /\ props = PageProps
  /\ storage = EmptyStorage
  /\ origin = EmptyStorage
  /\ \E n \in FileNames, t \in 0..MaxStamp :
       pure = [stage |-> "input", name |-> n, t |-> t]

SpecNaming == InitNaming /\ [][NamingNext]_vars


(***************************************************************************)
(* The MIME lookup alone, over extension strings.                          *)
(***************************************************************************)
ExtensionStrings ==
  { <<>>, <<"x", "y", "z">>, <<"P", "D", "F">>, <<"t", "x", "t", " ">> }
    \cup DOMAIN mimeTypes
    \cup DOMAIN ObjectPrototype
    \cup { a \o b : a, b \in DOMAIN mimeTypes }

LookupMime ==
  /\ pure.stage = "extension"
  /\ pure' = [stage |-> "mime", extension |-> pure.extension,
              mimeType |-> getMimeType(pure.extension)]
  /\ UNCHANGED <<upVars, v1Vars, storeVars, now, listVars, ev, props, modalVars>>

InitMime ==
  /\ InitCommon
  /\ props = PageProps
  /\ storage = EmptyStorage
  /\ origin = EmptyStorage
  /\ \E e \in ExtensionStrings : pure = [stage |-> "extension", extension |-> e]

SpecMime == InitMime /\ [][LookupMime]_vars


(***************************************************************************)
(* Two runs side by side: the same user steps on the same files, under the *)
(* same clock and the same random ids, with a password typed per run.      *)
(* Each step records what either run hands to storage and to the database. *)
(***************************************************************************)
\* mutant: expiresAt computed from the initial expiryDays
shareRowDefaultExpiry(fileName, shareId, today, expiryDays) ==
  [id |-> shareId, file_name |-> fileName,
   expires_at |-> today + DefaultExpiryDays, created_at |-> today]

\* the row generateShareLink inserts into file_shares; dates as day numbers
shareRow(fileName, shareId, today, expiryDays) ==
  [id |-> shareId, file_name |-> fileName,
   expires_at |-> today + expiryDays, created_at |-> today]

\* the storage call handleUpload issues for a batch of the one file `file`
\* read at time t: none when the gate or validateFile rejects
handleUploadCall(file, pw, t) ==
  IF GateRejects(pw) \/ validateFile(file) # NoError
  THEN NoCall
  ELSE uploadRequest(file, pw, t)

\* the storage call handleDownload issues: none without a password
handleDownloadCall(fileName, pw) ==
  IF pw = "" THEN NoCall ELSE downloadRequest(fileName)

RunPasswords == { "", Short, Pass1, Pass2 }
UploadableFiles == { FileA, FileA2, FileB, FileC, FileEmpty }
ShareIds == { "uuid-1", "uuid-2" }

\* what both runs send in one step; passed: the step's password gate let
\* the run through
Sent(step, passed, call, row) ==
  [stage |-> "runs", pw |-> pure.pw, step |-> step, passed |-> passed,
   call |-> call, row |-> row]

BothUpload(file, t) ==
  /\ pure.stage = "runs"
  /\ pure' = Sent("upload",
                  [r \in 1..2 |-> ~GateRejects(pure.pw[r])],
                  [r \in 1..2 |-> handleUploadCall(file, pure.pw[r], t)],
                  [r \in 1..2 |-> NoRow])
  /\ UNCHANGED <<upVars, v1Vars, storeVars, now, listVars, ev, props, modalVars>>

BothDownload(k) ==
  /\ pure.stage = "runs"
  /\ pure' = Sent("download",
                  [r \in 1..2 |-> pure.pw[r] # ""],
                  [r \in 1..2 |-> handleDownloadCall(k, pure.pw[r])],
                  [r \in 1..2 |-> NoRow])
  /\ UNCHANGED <<upVars, v1Vars, storeVars, now, listVars, ev, props, modalVars>>

BothDelete(k) ==
  /\ pure.stage = "runs"
  /\ pure' = Sent("delete", [r \in 1..2 |-> TRUE],
                  [r \in 1..2 |-> removeRequest(k)],
                  [r \in 1..2 |-> NoRow])
  /\ UNCHANGED <<upVars, v1Vars, storeVars, now, listVars, ev, props, modalVars>>

BothList ==
  /\ pure.stage = "runs"
  /\ pure' = Sent("list", [r \in 1..2 |-> TRUE],
                  [r \in 1..2 |-> listRequest],
                  [r \in 1..2 |-> NoRow])
  /\ UNCHANGED <<upVars, v1Vars, storeVars, now, listVars, ev, props, modalVars>>

BothShare(k, shareId, today) ==
  /\ pure.stage = "runs"
  /\ pure' = Sent("share", [r \in 1..2 |-> TRUE],
                  [r \in 1..2 |-> NoCall],
                  [r \in 1..2 |->
                     shareRow(k, shareId, today, DefaultExpiryDays)])
  /\ UNCHANGED <<upVars, v1Vars, storeVars, now, listVars, ev, props, modalVars>>

TwoRunsNext ==
  \/ \E file \in UploadableFiles, t \in 1..MaxTime : BothUpload(file, t)
  \/ \E k \in AllKeys : BothDownload(k)
  \/ \E k \in AllKeys : BothDelete(k)
  \/ BothList
  \/ \E k \in AllKeys, id \in ShareIds, today \in 1..MaxTime :
       BothShare(k, id, today)

InitTwoRuns ==
  /\ InitCommon
  /\ props = PageProps
  /\ storage = EmptyStorage
  /\ origin = EmptyStorage
  /\ \E p1, p2 \in RunPasswords :
       pure = [stage |-> "runs", pw |-> <<p1, p2>>, step |-> "none",
               passed |-> <<TRUE, TRUE>>,
               call |-> <<NoCall, NoCall>>, row |-> <<NoRow, NoRow>>]

SpecTwoRuns == InitTwoRuns /\ [][TwoRunsNext]_vars


(***************************************************************************)
(* ShareFileModal, rendered for one fileName.                              *)
(***************************************************************************)
ShareFailedMsg == "Failed to generate share link. Please try again."
CopyFailedMsg == "Failed to copy to clipboard"

\* window.location.origin
Origin == "https://encrypto.example"

\* mutant: the link built without the id
shareLinkWithoutId(shareId) == Origin \o "/share/"

\* `${baseUrl}/share/${shareId}`
shareLinkOf(shareId) == Origin \o "/share/" \o shareId

\* the <option> values of the expiry select
ExpiryOptions == { 1, 3, 7, 30 }

\* the parent opens the modal, or closes it through onClose
SetOpen(open) ==
  /\ modal.isOpen # open
  /\ modal' = [modal EXCEPT !.isOpen = open]
  /\ ev' = Quiet
  /\ UNCHANGED <<upVars, v1Vars, storeVars, now, listVars, pure, props,
                 fileShares>>

\* onChange of the expiry select: setExpiryDays(Number(e.target.value))
SelectExpiry(days) ==
  /\ modal.isOpen
  /\ days # modal.expiryDays
  /\ modal' = [modal EXCEPT !.expiryDays = days]
  /\ ev' = Quiet
  /\ UNCHANGED <<upVars, v1Vars, storeVars, now, listVars, pure, props,
                 fileShares>>

\* the Generate button is rendered while there is no link, and disabled
\* while generating
GenerateEnabled ==
  modal.isOpen /\ modal.shareLink = NoLink /\ ~modal.isGenerating

\* generateShareLink up to its await: the id is drawn, the dates are read,
\* the insert is sent; `asked` is a ghost: when and with which expiry
GenerateShareLink(shareId, today) ==
  /\ GenerateEnabled
  /\ shareId \notin { r.id : r \in fileShares }
  /\ now' = today
  /\ modal' = [modal EXCEPT
                 !.isGenerating = TRUE,
                 !.error = NoError,
                 !.pending = shareRow(props.fileName, shareId, today,
                                      modal.expiryDays),
                 !.asked = [at |-> today, days |-> modal.expiryDays]]
  /\ ev' = Output(KeyCall("insert", props.fileName), NoSave)
  /\ UNCHANGED <<upVars, v1Vars, storeVars, listVars, pure, props, fileShares>>

\* the insert settles: the row is in the table and the link is set, or the
\* catch sets the error; finally the generating flag is cleared
InsertReturns(ok) ==
  /\ modal.isGenerating
  /\ IF ok
     THEN /\ fileShares' = fileShares \cup {modal.pending}
          /\ modal' = [modal EXCEPT
                         !.shareLink = shareLinkOf(modal.pending.id),
                         !.isGenerating = FALSE, !.pending = NoRow]
     ELSE /\ fileShares' = fileShares
          /\ modal' = [modal EXCEPT
                         !.error = ShareFailedMsg,
                         !.isGenerating = FALSE, !.pending = NoRow]
  /\ ev' = Ended(Operation("share", props.fileName, ""), ok, NoSave)
  /\ UNCHANGED <<upVars, v1Vars, storeVars, now, listVars, pure, props>>

\* copyToClipboard by the button next to the link
CopyToClipboard(ok) ==
  /\ modal.isOpen
  /\ modal.shareLink # NoLink
  /\ modal' = IF ok THEN [modal EXCEPT !.copied = TRUE]
              ELSE [modal EXCEPT !.error = CopyFailedMsg]
  /\ ev' = Quiet
  /\ UNCHANGED <<upVars, v1Vars, storeVars, now, listVars, pure, props,
                 fileShares>>

\* setTimeout(() => setCopied(false), 2000)
CopiedTimer ==
  /\ modal.copied
  /\ modal' = [modal EXCEPT !.copied = FALSE]
  /\ ev' = Quiet
  /\ UNCHANGED <<upVars, v1Vars, storeVars, now, listVars, pure, props,
                 fileShares>>

ModalNext ==
  \/ \E open \in BOOLEAN : SetOpen(open)
  \/ \E days \in ExpiryOptions : SelectExpiry(days)
  \/ \E id \in ShareIds, today \in now..MaxTime : GenerateShareLink(id, today)
  \/ \E ok \in BOOLEAN : InsertReturns(ok)
  \/ \E ok \in BOOLEAN : CopyToClipboard(ok)
  \/ CopiedTimer

\* the link the modal shows: none while it is closed
DisplayedLink == IF modal.isOpen THEN modal.shareLink ELSE NoLink

InitShare ==
  /\ InitCommon
  /\ pure = NoPure
  /\ storage = EmptyStorage
  /\ origin = EmptyStorage
  /\ \E k \in AllKeys : props = [onUploadComplete |-> FALSE, fileName |-> k]

SpecShare == InitShare /\ [][ModalNext]_vars


(***************************************************************************)
(* Properties.                                                             *)
(***************************************************************************)
\* the storage keys with a download or delete in flight
InFlightKeys == { op.key : op \in BagToSet(inflight) }

\* the number of operations in flight on key k
InFlightOn(k) ==
  BagCardinality([op \in { o \in BagToSet(inflight) : o.key = k } |->
                    CopiesIn(op, inflight)])

\* the step just taken ended a download whose storage call succeeded, made
\* with the password the blob was uploaded with / with another password
DownloadedWithSamePassword ==
  /\ ev.done.kind = "download"
  /\ ev.got
  /\ ev.done.key \in DOMAIN origin
  /\ ev.done.pw = origin[ev.done.key].pw

DownloadedWithOtherPassword ==
  /\ ev.done.kind = "download"
  /\ ev.got
  /\ ev.done.key \in DOMAIN origin
  /\ ev.done.pw # origin[ev.done.key].pw

\* C1 (as claimed): a file uploaded with password P by either version of
\* the uploader and downloaded with the same P is saved with exactly the
\* uploaded bytes, and no error is reported.
C1_RoundTrip ==
  DownloadedWithSamePassword =>
    /\ ev.save.saved
    /\ ev.save.bytes = origin[ev.done.key].bytes
    /\ error \notin {DecryptFailedMsg, DownloadFailedMsg}

\* C2 (as claimed): a download with a password other than the upload
\* password never triggers the save action and ends with the error
\* 'Incorrect password or corrupted file'.
C2_WrongKeyNeverSaves ==
  DownloadedWithOtherPassword =>
    /\ ~ev.save.saved
    /\ error = DecryptFailedMsg

\* C2 (amended): a download with a password other than the upload password
\* either ends with the error 'Incorrect password or corrupted file' and no
\* save action, or saves the bytes atob decodes from a decrypted string that
\* is not empty and that atob accepts; an empty or malformed decrypted
\* string is never a successful download.
C2_WrongKeyFailsUnlessBase64 ==
  DownloadedWithOtherPassword =>
    IF ev.save.saved
    THEN \E d \in WrongKeyOutcomes :
           /\ ~d.thrown
           /\ d.text # <<>>
           /\ ~atob(d.text).thrown
           /\ ev.save.bytes = atob(d.text).bytes
    ELSE error = DecryptFailedMsg

\* C2 witness: a wrong-password download just ended with the error message
C2_Witness ==
  /\ DownloadedWithOtherPassword
  /\ ~ev.save.saved
  /\ error = DecryptFailedMsg

\* C3 (as claimed): once the loop of an accepted batch is over, every file
\* that failed validation or whose read or put failed has status error,
\* every file whose put was accepted has status complete, and no put is
\* ever issued for a file that failed validation.
C3_PerFileOutcome ==
  \A b \in 1..Len(batches) :
    /\ batches[b].pc = "put" =>
         validateFile(batches[b].files[batches[b].i]) = NoError
    /\ batches[b].pc = "timer" =>
         /\ Len(batches[b].out) = Len(batches[b].files)
         /\ \A n \in 1..Len(uploadingFiles) :
              uploadingFiles[n].of[1] = b =>
                LET result == batches[b].out[uploadingFiles[n].of[2]]
                IN  uploadingFiles[n].status =
                      IF result = "stored" THEN "complete" ELSE "error"

\* C4: no two user operations are in flight on one storage key, and the
\* buttons of a key with an operation in flight are disabled.
C4_OneOperationPerKey ==
  \A k \in AllKeys :
    /\ InFlightOn(k) <= 1
    /\ InFlightOn(k) = 1 => ~ButtonEnabled(k)

\* C4 witness: an operation is in flight on a key whose row is shown
C4_Witness ==
  \E k \in AllKeys : InFlightOn(k) = 1 /\ RowShown(k) /\ ~ButtonEnabled(k)

\* C5 (as claimed): a drop made while the password field holds a password
\* of at least 8 characters passes the gate, creates the tasks of the batch
\* and encrypts under exactly the typed password.
C5_DropUsesTypedPassword ==
  [][\A fl \in SampleBatches :
       (HandleDrop(fl) /\ validatePassword(password)
          /\ Len(batches) < MaxBatches)
         => /\ Len(batches') = Len(batches) + 1
            /\ batches'[Len(batches')].pw = password
            /\ Len(uploadingFiles') >= Len(fl)
            /\ upError' = NoError]_vars

\* C6: a handleUpload that runs with a password shorter than 8 characters
\* sets the password error and leaves the task list as it was: no task, no
\* read, no storage call, no prune timer. Stated step by step: a step either
\* has exactly that effect or is no handleUpload run with a short password.
C6_GateRejectsBatch ==
  [][\/ /\ uploadingFiles' = uploadingFiles
        /\ batches' = batches
        /\ storage' = storage
        /\ ev'.call = NoCall
        /\ upError' = PasswordTooShortMsg
     \/ \A pw \in { p \in Passwords : Len(p) < 8 }, fl \in SampleBatches :
          ~HandleUploadWith(fl, pw)]_vars

\* C6 witness: a short password is in the field, tasks of an earlier batch
\* are listed, and the gate has set its error
C6_Witness ==
  /\ password = Short
  /\ upError = PasswordTooShortMsg
  /\ Len(uploadingFiles) > 0

\* the characters of a text
Chars(text) == { text[i] : i \in 1..Len(text) }

\* C7 (as claimed): for a name without '-', the name parsed from the key is
\* the name, and the parsed extension is what follows the last '.'.
C7_NamingRoundTrip ==
  (pure.stage = "parsed" /\ "-" \notin Chars(pure.name)) =>
    /\ pure.originalFileName = pure.name
    /\ "." \in Chars(pure.name) =>
         pure.fileExtension = Pop(Split(pure.name, "."))

\* C8: across every step, a key whose operation is in flight before and
\* after the step is in the operation-in-progress set before and after it,
\* whatever the step does to other keys.
C8_OtherKeysStay ==
  [][\A k \in AllKeys :
       (k \in InFlightKeys /\ k \in InFlightKeys')
         => (k \in operatingFiles /\ k \in operatingFiles')]_vars

\* C8 witness: operations on two different keys are in flight at once
C8_Witness ==
  \E k1, k2 \in InFlightKeys :
    k1 # k2 /\ {k1, k2} \subseteq operatingFiles

\* C9: a download that ends on a storage error shows exactly the storage
\* message and one that ends on a decryption error exactly the decryption
\* message; neither triggers the save action.
C9_FailureMessages ==
  ev.done.kind = "download" =>
    /\ ~ev.got => (error = DownloadFailedMsg /\ ~ev.save.saved)
    /\ (ev.got /\ ~ev.save.saved) => error = DecryptFailedMsg
    /\ ev.save.saved => ev.got

\* C9 witness: a download just ended on a storage error
C9_Witness ==
  /\ ev.done.kind = "download"
  /\ ~ev.got
  /\ error = DownloadFailedMsg

C11_DeleteNeedsConfirm ==
  [][/\ ev'.call.fn = "remove" =>
          /\ ev'.confirm = "yes"
          /\ \E k \in AllKeys : HandleDelete(k, TRUE) /\ ev'.call.key = k
     /\ ev'.confirm = "no" =>
          /\ ev'.call = NoCall
          /\ files' = files
          /\ operatingFiles' = operatingFiles
          /\ error' = error
          /\ inflight' = inflight
          /\ storage' = storage]_vars

\* C11 witness: the prompt was just declined while the listing has rows, an
\* error is shown and another key is busy
C11_Witness ==
  /\ ev.confirm = "no"
  /\ files # {}
  /\ error # NoError
  /\ operatingFiles # {}

\* C13: a fetchFiles whose list call returns no error and zero records, or
\* no data, ends with loading false and the listing empty, sets no error
\* message, and the view shows the empty state.
C13_EmptyListing ==
  [][(fetch.pc = "replied" /\ fetch.ok /\ (fetch.nodata \/ fetch.data = {})
        /\ fetch'.pc = "idle")
       => /\ ~loading'
          /\ files' = {}
          /\ error' = error
          /\ error' # FetchFailedMsg
          /\ ListView' = "empty"]_vars

\* C13 witness: after a fetch over an empty bucket the view shows the empty
\* state and no error
C13_Witness ==
  /\ fetch.pc = "idle"
  /\ DOMAIN storage = {}
  /\ ListView = "empty"
  /\ error = NoError

\* C15: the operation-in-progress set is exactly the set of keys with a
\* download or delete in flight; it is empty when nothing is in flight.
C15_NoLeakedBusyState ==
  /\ operatingFiles = InFlightKeys
  /\ inflight = EmptyBag => operatingFiles = {}

\* C15 witness: an operation just ended on a failure while another one is
\* still in flight
C15_Witness ==
  /\ ev.done.kind \in {"download", "delete"}
  /\ error \in {DownloadFailedMsg, DecryptFailedMsg, DeleteFailedMsg}
  /\ ev.done.key \notin operatingFiles
  /\ operatingFiles # {}

\* C20: when a confirmed delete of K ends, K has left the operation-in-
\* progress set; if the remove succeeded exactly K has left the listing,
\* otherwise the listing is unchanged and the delete error is set.
C20_DeleteOutcome ==
  [][ev'.done.kind = "delete" =>
       /\ ev'.done.key \notin operatingFiles'
       /\ IF ev'.got
          THEN files' = files \ {ev'.done.key}
          ELSE files' = files /\ error' = DeleteFailedMsg]_vars

\* C20 witness: a delete just succeeded and another row is still listed
C20_Witness ==
  /\ ev.done.kind = "delete"
  /\ ev.got
  /\ files # {}
  /\ ev.done.key \notin files

\* C14 (as claimed): getMimeType returns the table entry for pdf, doc, docx,
\* txt, png, jpg, jpeg and gif, and 'application/octet-stream' for every
\* other extension string, the empty one included.
C14_MimeLookup ==
  pure.stage = "mime" =>
    pure.mimeType = IF pure.extension \in DOMAIN mimeTypes
                    THEN mimeTypes[pure.extension]
                    ELSE OctetStream

\* C12: a share link is displayed only if the insert into file_shares
\* succeeded; it is origin + '/share/' + the id of the inserted row, whose
\* file_name is the modal's fileName and whose expires_at is the generation
\* time plus the selected expiryDays.  When the insert fails no link is set
\* and the error is; the generating flag is false after either outcome.
C12_ShareLink ==
  /\ DisplayedLink # NoLink =>
       \E row \in fileShares :
         /\ DisplayedLink = Origin \o "/share/" \o row.id
         /\ row.file_name = props.fileName
         /\ row.expires_at = modal.asked.at + modal.asked.days
  /\ ev.done.kind = "share" =>
       /\ ~modal.isGenerating
       /\ ~ev.got => modal.shareLink = NoLink /\ modal.error = ShareFailedMsg
       /\ ev.got => modal.shareLink # NoLink

\* C12 witness: an insert just succeeded and the link on display was
\* generated with an expiry other than the initial one
C12_Witness ==
  /\ DisplayedLink # NoLink
  /\ modal.asked.days # DefaultExpiryDays
  /\ modal.asked.at > 0
  /\ ev.done.kind = "share"
  /\ ev.got

\* the values the code assigns to progress
ProgressValues == { 0, 25, 50, 75, 100 }

\* C16 (as claimed): every task's progress is one of 0, 25, 50, 75, 100; a
\* task with status complete has progress 100 and the put of its own file
\* returned success; over a step no task's progress decreases.  Batches with
\* two files of one name are among the inputs.
C16_UploadTaskInvariant ==
  [][/\ \A n \in 1..Len(uploadingFiles') :
          LET task == uploadingFiles'[n]
              b == task.of[1]
              j == task.of[2]
          IN  /\ task.progress \in ProgressValues
              /\ task.status = "complete" =>
                   /\ task.progress = 100
                   /\ Len(batches'[b].out) >= j
                   /\ batches'[b].out[j] = "stored"
     /\ \A n \in 1..Len(uploadingFiles), m \in 1..Len(uploadingFiles') :
          uploadingFiles[n].of = uploadingFiles'[m].of =>
            uploadingFiles'[m].progress >= uploadingFiles[n].progress]_vars

\* the step is the prune timer of batch b
TimerStep(b) ==
  /\ b \in 1..Len(batches)
  /\ batches[b].pc = "timer"
  /\ batches'[b].pc = "done"

\* the task made for file j of batch b is in the list
Listed(tasks, of) == \E n \in 1..Len(tasks) : tasks[n].of = of

\* C17 (as claimed): a task leaves the list only in the step of its own
\* batch's timer, and only when its status is no longer uploading; a
\* finished task leaves the list when its own batch's timer fires.
C17_TaskPruning ==
  [][\A n \in 1..Len(uploadingFiles) :
       LET task == uploadingFiles[n]
       IN  /\ ~Listed(uploadingFiles', task.of) =>
                /\ task.status # "uploading"
                /\ TimerStep(task.of[1])
           /\ (TimerStep(task.of[1]) /\ task.status # "uploading") =>
                ~Listed(uploadingFiles', task.of)]_vars

\* the loop of batch b has dealt with every file
LoopOver(b) == Len(batches[b].out) = Len(batches[b].files)

\* what has been invoked, and what a batch whose timer is set looks like
CallbackAfterBatch ==
  props.onUploadComplete =>
    \A b \in 1..Len(batches) :
      /\ batches[b].called = IF batches[b].pc = "done" THEN 1 ELSE 0
      /\ batches[b].pc \in {"timer", "done"} =>
           /\ LoopOver(b)
           /\ \A n \in 1..Len(uploadingFiles) :
                uploadingFiles[n].of[1] = b =>
                  uploadingFiles[n].status \in {"complete", "error"}

\* C18: when the callback is passed, it has been invoked once for a batch
\* whose timer has fired and not at all for a batch whose timer has not; a
\* timer is set only when the loop has dealt with every file, and by then no
\* task of the batch is still uploading; every accepted batch gets its
\* invocation in the end.  A rejected call of handleUpload starts no batch,
\* so nothing is invoked for it.
C18_CallbackOncePerBatch ==
  /\ []CallbackAfterBatch
  /\ []<>(props.onUploadComplete =>
            \A b \in 1..Len(batches) : batches[b].called = 1)

\* C18 witness: the callback was invoked for an accepted batch of several
\* files, one of them stored
C18_Witness ==
  /\ props.onUploadComplete
  /\ \E b \in 1..Len(batches) :
       /\ batches[b].called = 1
       /\ \E j \in 1..Len(batches[b].out) : batches[b].out[j] = "stored"
       /\ Len(batches[b].files) >= 2

\* what the loop may issue right after `prev`: within a file 25, 50, 75,
\* put, then complete or error; an error at once or after 25; the next file
\* only after the end of the one before
MayFollow(prev, next) ==
  IF next.i = prev.i
  THEN <<prev.op, next.op>> \in
         { <<"25", "50">>, <<"50", "75">>, <<"75", "put">>,
           <<"put", "complete">>, <<"put", "error">>, <<"25", "error">> }
  ELSE /\ next.i = prev.i + 1
       /\ prev.op \in {"complete", "error"}
       /\ next.op \in {"25", "error"}

\* C19: what a batch's loop issues is in input order, one file at a time:
\* nothing for file i+1 before file i ended, and within a file 25, 50, 75,
\* the put, and complete only after the put.
C19_OrderWithinBatch ==
  \A b \in 1..Len(batches) :
    LET log == batches[b].log
    IN  /\ log # <<>> => log[1].i = 1 /\ log[1].op \in {"25", "error"}
        /\ \A k \in 1..(Len(log) - 1) : MayFollow(log[k], log[k + 1])
        /\ \A k \in 1..Len(log) :
             log[k].op = "complete" => batches[b].out[log[k].i] = "stored"

\* C19 witness: a batch of three files is through, with a file skipped by
\* validation between two files that were put
C19_Witness ==
  \E b \in 1..Len(batches) :
    /\ Len(batches[b].files) = 3
    /\ batches[b].pc = "timer"
    /\ \E k \in 1..Len(batches[b].log) : batches[b].log[k].op = "complete"
    /\ \E k \in 1..Len(batches[b].log) :
         batches[b].log[k].op = "error" /\ batches[b].log[k].i = 2

\* C21 (as claimed): when the original name contains the separator '-', the
\* name parsed from the storage key for the save differs from the original
\* name.
C21_SeparatorCollision ==
  (pure.stage = "parsed" /\ "-" \in Chars(pure.name)) =>
    pure.originalFileName # pure.name

\* C21 (amended): when the original name contains '-', the parsed name is
\* the name followed by '.encrypted' with the first '.encrypted' removed:
\* only the timestamp part before the first '-' is dropped, and a name that
\* does not itself contain '.encrypted' is restored exactly.
C21_SeparatorKept ==
  (pure.stage = "parsed" /\ "-" \in Chars(pure.name)) =>
    /\ pure.originalFileName = ReplaceFirst(pure.name \o Suffix, Suffix, <<>>)
    /\ IndexOf(pure.name, Suffix) = 0 => pure.originalFileName = pure.name

\* C21 witness: a name with a '-' between other characters was parsed back
\* from its key unchanged
C21_Witness ==
  /\ pure.stage = "parsed"
  /\ Len(pure.name) = 3
  /\ pure.name[2] = "-"
  /\ pure.name[1] # "-"
  /\ pure.name[3] # "-"
  /\ pure.originalFileName = pure.name

\* the positions of the files of batch b that the loop deals with in this
\* step: from the file it stood at up to the file it stands at afterwards
UpdatedFiles(b) ==
  IF b > Len(batches')
  THEN {}
  ELSE IF b > Len(batches)
  THEN 1..batches'[b].i
  ELSE IF batches'[b] # batches[b]
  THEN batches[b].i..batches'[b].i
  ELSE {}

\* C22 (as claimed): over a step, a task that stays in the list changes only
\* if the step's updates are made for the file the task was created for;
\* every other task is unchanged, also one of the same name from the same
\* batch or from an earlier batch.
C22_UpdateOwnTaskOnly ==
  [][\A n \in 1..Len(uploadingFiles), m \in 1..Len(uploadingFiles') :
       (/\ uploadingFiles[n].of = uploadingFiles'[m].of
        /\ uploadingFiles'[m] # uploadingFiles[n])
         => uploadingFiles[n].of[2] \in UpdatedFiles(uploadingFiles[n].of[1])]_vars

\* C23 (as claimed): a key enters the local listing only through the reply
\* of a list call, and never through the reply of a list call during which
\* the key's delete succeeded: a deleted file is not reinstated by the stale
\* result of a Refresh that was in flight when the delete succeeded.
C23_DeletedStaysGone ==
  [][\A k \in AllKeys :
       (k \notin files /\ k \in files') =>
         /\ fetch.pc = "replied"
         /\ fetch'.pc = "idle"
         /\ k \notin fetch.gone]_vars

=============================================================================
